---- MODULE Spec2Model ----
(***************************************************************************)
(* Model of sql_health_monitor.py: the monitoring cycle (monitor_once),    *)
(* the continuous driver (monitor_continuous) and the entry point (main).  *)
(* The database server, the wall clock and the operator (Ctrl+C) are the   *)
(* environment; the program is single-threaded.                            *)
(***************************************************************************)
EXTENDS Integers, Sequences, FiniteSets, TLC

\* ---------------------------------------------------------------- bounds
MaxInterval == 5   \* monitor_continuous(interval, ...) ranges over 1..MaxInterval
MaxDuration == 12  \* monitor_continuous(..., duration) ranges over 0..MaxDuration
MaxStepTime == 1   \* seconds the connection attempt of a cycle may take: 0..MaxStepTime
MaxRows     == 1   \* rows a result set may hold: 0..MaxRows
MaxStart    == 1   \* seconds the operator may take to answer the prompt: 0..MaxStart

\* Cap on the number of cycles; never binding for the program as written
\* (each iteration sleeps interval >= 1 seconds, so at most duration cycles run).
MaxCycles == MaxDuration + 2

VARIABLES
    choice,      \* main: the operator's answer to the prompt
    interval,    \* monitor_continuous: parameter
    duration,    \* monitor_continuous: parameter
    end_time,    \* monitor_continuous: local, the deadline
    now,         \* the wall clock, time.time(), relative to program start
    wake,        \* the time at which the current time.sleep returns
    pc,          \* position of the driver: main, init, check, cycle, refresh, sleep, exit
    cpc,         \* position inside monitor_once, "idle" outside it
    conn,        \* monitor_once: local conn, "none" or "open"
    cpu,         \* monitor_once: local cpu, "unset", "absent" (None) or "row"
    queries,     \* monitor_once: local queries, a sequence of rows
    blocking,    \* monitor_once: local blocking, a sequence of rows
    out,         \* lines printed by the cycle in progress or just ended
    calls,       \* query functions called by the cycle in progress or just ended
    failedAt,    \* the step of that cycle whose exception the cycle handled, or "none"
    cycleEnd,    \* how that cycle ended: "none" (not yet), "ok", "error", "aborted"
    cycles,      \* number of calls of monitor_once so far
    unclosed,    \* some session was opened and dropped without conn.close()
    intAt,       \* driver position at which KeyboardInterrupt was raised, or "none"
    stoppedMsgs, \* number of "Monitoring stopped by user" lines printed
    crashed,     \* an exception left main (traceback, abnormal end)
    busy         \* some cycle took time (cycles are not instantaneous)

vars == <<choice, interval, duration, end_time, now, wake, pc, cpc, conn, cpu,
          queries, blocking, out, calls, failedAt, cycleEnd, cycles, unclosed,
          intAt, stoppedMsgs, crashed, busy>>

params == <<choice, interval, duration, end_time>>
locals == <<cpu, queries, blocking>>
intr   == <<intAt, stoppedMsgs, crashed>>

\* ------------------------------------------------------------ result sets
\* A row is "ok" (every printed column has a value) or "null" (a printed
\* column is NULL, e.g. blocking_session_id, which str.format cannot pad).
RowKinds == {"ok", "null"}

RowSets == UNION {[1..n -> RowKinds] : n \in 0..MaxRows}

\* --------------------------------------------------------------- printing
\* display_header: four lines.
Header == <<"RULE", "TITLE", "TIME", "RULE">>

\* display_cpu: the label is printed before cpu's attributes are read.
CpuLines(c) ==
    IF c = "absent" THEN <<"[CPU]">>
    ELSE <<"[CPU]", "SQL Server", "Other", "Idle">>

\* Variant: None is printed like any value ("None%"), nothing is raised.
CpuNeverRaises(c) == FALSE

\* display_cpu raises AttributeError on None.
CpuRaises(c) == c = "absent"

RECURSIVE OkPrefix(_)
\* The rows a display loop prints before it reaches a row it cannot format.
OkPrefix(rows) ==
    IF rows = <<>> \/ Head(rows) = "null" THEN <<>>
    ELSE <<"ROW">> \o OkPrefix(Tail(rows))

\* A display loop raises TypeError at the first row with a NULL column.
RowsRaise(rows) == \E i \in 1..Len(rows) : rows[i] = "null"

\* display_queries
QueryLines(rows) ==
    IF rows = <<>> THEN <<"[ACTIVE QUERIES]", "No active queries">>
    ELSE <<"[ACTIVE QUERIES]", "QCOLUMNS", "DASHES">> \o OkPrefix(rows)

\* display_blocking
BlockingLines(rows) ==
    IF rows = <<>> THEN <<"[BLOCKING]", "No blocking detected">>
    ELSE <<"[BLOCKING]", "BCOLUMNS", "DASHES">> \o OkPrefix(rows)

\* ------------------------------------------------------------- exceptions
\* Exceptions: "Error" (pyodbc.Error), "AttributeError", "TypeError" derive
\* from Exception; "KeyboardInterrupt" derives from BaseException only.
Exceptions == {"Error", "AttributeError", "TypeError", "KeyboardInterrupt"}

\* Variant: the handler names one exception class only.
OnceCatchesAttributeError(exc) == exc = "AttributeError"

\* Variant: a bare except, which catches BaseException too.
OnceCatchesAll(exc) == TRUE

\* monitor_once: except Exception
OnceCatches(exc) == exc # "KeyboardInterrupt"

\* Variant: except Exception around the loop, which KeyboardInterrupt passes.
LoopCatchesException(exc) == exc # "KeyboardInterrupt"

\* monitor_continuous: except KeyboardInterrupt
LoopCatches(exc) == exc = "KeyboardInterrupt"

\* Where monitor_once returns to: the loop body of monitor_continuous, or main.
AfterOnce == IF choice = "2" THEN "refresh" ELSE "exit"

\* Positions inside the try block of monitor_continuous.
InLoopTry == choice = "2" /\ pc \in {"check", "cycle", "refresh", "sleep"}

\* An exception leaves monitor_once (or is raised in the loop itself): the
\* try of monitor_continuous handles it, or it leaves main.
Propagate(exc) ==
    /\ pc' = "exit"
    /\ IF InLoopTry /\ LoopCatches(exc)
       THEN stoppedMsgs' = stoppedMsgs + 1 /\ crashed' = crashed
       ELSE stoppedMsgs' = stoppedMsgs /\ crashed' = TRUE

\* exc is raised at `step` of monitor_once after the lines o were printed.
\* The try block is left at once; conn.close() is not reached, so an open
\* session is dropped unclosed.
Raise(exc, step, o) ==
    /\ conn' = "none"
    /\ unclosed' = (unclosed \/ conn = "open")
    /\ IF OnceCatches(exc)
       THEN /\ out' = Append(o, "ERROR")
            /\ failedAt' = step
            /\ cycleEnd' = "error"
            /\ cpc' = "idle"
            /\ pc' = AfterOnce
            /\ UNCHANGED <<stoppedMsgs, crashed>>
       ELSE /\ out' = o
            /\ failedAt' = failedAt
            /\ cycleEnd' = "aborted"
            /\ cpc' = cpc
            /\ Propagate(exc)

\* The step completes and the try block goes on to `next`.
Advance(next, o) ==
    /\ cpc' = next
    /\ out' = o
    /\ pc' = pc
    /\ UNCHANGED <<failedAt, cycleEnd, unclosed, stoppedMsgs, crashed>>

\* ------------------------------------------------------------------- main
Init ==
    /\ choice \in {"1", "2", "x"}
    /\ interval = 0 /\ duration = 0 /\ end_time = 0
    /\ now = 0 /\ wake = 0
    /\ pc = "main" /\ cpc = "idle"
    /\ conn = "none"
    /\ cpu = "unset" /\ queries = <<>> /\ blocking = <<>>
    /\ out = <<>> /\ calls = <<>>
    /\ failedAt = "none" /\ cycleEnd = "none"
    /\ cycles = 0 /\ unclosed = FALSE
    /\ intAt = "none" /\ stoppedMsgs = 0 /\ crashed = FALSE
    /\ busy = FALSE

\* A call of monitor_once: a fresh frame.
EnterCycle ==
    /\ pc' = "cycle" /\ cpc' = "connect"
    /\ cycles' = cycles + 1
    /\ cpu' = "unset" /\ queries' = <<>> /\ blocking' = <<>>
    /\ out' = <<>> /\ calls' = <<>>
    /\ failedAt' = "none" /\ cycleEnd' = "none"

\* main, choice "1": one call of monitor_once.  The operator takes d seconds
\* to answer the prompt.
MainSingle ==
    /\ pc = "main" /\ choice = "1"
    /\ \E d \in 0..MaxStart : now' = now + d
    /\ EnterCycle
    /\ UNCHANGED <<params, wake, conn, unclosed, intr, busy>>

\* main, choice "2": monitor_continuous(interval, duration).
MainContinuous ==
    /\ pc = "main" /\ choice = "2"
    /\ \E d \in 0..MaxStart : now' = now + d
    /\ \E i \in 1..MaxInterval, dur \in 0..MaxDuration :
          interval' = i /\ duration' = dur
    /\ pc' = "init"
    /\ UNCHANGED <<choice, end_time, wake, cpc, conn, locals, out, calls,
                   failedAt, cycleEnd, cycles, unclosed, intr, busy>>

\* main, any other choice: "Invalid choice".
MainInvalid ==
    /\ pc = "main" /\ choice \notin {"1", "2"}
    /\ \E d \in 0..MaxStart : now' = now + d
    /\ pc' = "exit"
    /\ UNCHANGED <<params, wake, cpc, conn, locals, out, calls, failedAt,
                   cycleEnd, cycles, unclosed, intr, busy>>

\* ----------------------------------------------------- monitor_continuous
\* The banner and end_time = time.time() + duration.
StartContinuous ==
    /\ pc = "init"
    /\ end_time' = now + duration
    /\ pc' = "check"
    /\ UNCHANGED <<choice, interval, duration, now, wake, cpc, conn, locals,
                   out, calls, failedAt, cycleEnd, cycles, unclosed, intr, busy>>

\* Variant: the loop test with <= for <.
LoopCondInclusive(t) == t <= end_time

\* while time.time() < end_time
LoopCond(t) == t < end_time

\* The loop test: call monitor_once, or leave the loop and return to main.
LoopCheck ==
    /\ pc = "check"
    /\ IF LoopCond(now)
       THEN /\ cycles < MaxCycles
            /\ EnterCycle
       ELSE /\ pc' = "exit"
            /\ UNCHANGED <<cpc, locals, out, calls, failedAt, cycleEnd, cycles>>
    /\ UNCHANGED <<params, now, wake, conn, unclosed, intr, busy>>

\* Variant: the sleep is lost (time.sleep(0)).
SleepReturnsAtOnce == now

\* time.sleep(interval) returns at:
SleepUntil == now + interval

\* Variant: the loop body sleeps only while time remains before the deadline
\* and goes back to the loop test otherwise.
RefreshIfTimeRemains ==
    /\ pc = "refresh"
    /\ IF now < end_time
       THEN pc' = "sleep" /\ wake' = now + interval
       ELSE pc' = "check" /\ wake' = wake
    /\ cpu' = "unset" /\ queries' = <<>> /\ blocking' = <<>>
    /\ out' = <<>> /\ calls' = <<>>
    /\ failedAt' = "none" /\ cycleEnd' = "none"
    /\ UNCHANGED <<params, now, cpc, conn, cycles, unclosed, intr, busy>>

\* print("Refreshing in ...") and the call of time.sleep(interval).  The
\* record of the cycle that just ended is dropped here.
Refresh ==
    /\ pc = "refresh"
    /\ pc' = "sleep"
    /\ wake' = SleepUntil
    /\ cpu' = "unset" /\ queries' = <<>> /\ blocking' = <<>>
    /\ out' = <<>> /\ calls' = <<>>
    /\ failedAt' = "none" /\ cycleEnd' = "none"
    /\ UNCHANGED <<params, now, cpc, conn, cycles, unclosed, intr, busy>>

\* A second passes inside time.sleep.
SleepTick ==
    /\ pc = "sleep" /\ now < wake
    /\ now' = now + 1
    /\ UNCHANGED <<params, wake, pc, cpc, conn, locals, out, calls, failedAt,
                   cycleEnd, cycles, unclosed, intr, busy>>

\* time.sleep returns; back to the loop test.
Wake ==
    /\ pc = "sleep" /\ now >= wake
    /\ pc' = "check"
    /\ UNCHANGED <<params, now, wake, cpc, conn, locals, out, calls, failedAt,
                   cycleEnd, cycles, unclosed, intr, busy>>

\* ----------------------------------------------------------- monitor_once
\* What a cycle step leaves alone in the driver.
driver == <<params, wake, cycles, intAt>>

\* Variant: the connection attempt has a handler of its own, which reports
\* the failure and lets the cycle go on without a session.
ConnectFailureIgnored ==
    /\ pc = "cycle" /\ cpc = "connect"
    /\ \E d \in 0..MaxStepTime :
          /\ now' = now + d
          /\ busy' = (busy \/ d > 0)
    /\ \/ conn' = "open" /\ Advance("cursor", out)
       \/ conn' = "none" /\ Advance("cursor", Append(out, "ERROR"))
    /\ UNCHANGED <<driver, locals, calls>>

\* conn = get_connection(): pyodbc.connect succeeds or raises pyodbc.Error.
\* The time the cycle spends on the server is charged here.
Connect ==
    /\ pc = "cycle" /\ cpc = "connect"
    /\ \E d \in 0..MaxStepTime :
          /\ now' = now + d
          /\ busy' = (busy \/ d > 0)
    /\ \/ conn' = "open" /\ Advance("cursor", out)
       \/ Raise("Error", "connect", out)
    /\ UNCHANGED <<driver, locals, calls>>

\* cursor = conn.cursor()
Cursor ==
    /\ pc = "cycle" /\ cpc = "cursor"
    /\ \/ conn' = conn /\ Advance("header", out)
       \/ Raise("Error", "cursor", out)
    /\ UNCHANGED <<driver, now, busy, locals, calls>>

\* display_header()
DisplayHeader ==
    /\ pc = "cycle" /\ cpc = "header"
    /\ conn' = conn /\ Advance("get_cpu_usage", out \o Header)
    /\ UNCHANGED <<driver, now, busy, locals, calls>>

\* cpu = get_cpu_usage(cursor): execute raises, or fetchone returns a row or None.
GetCpuUsage ==
    /\ pc = "cycle" /\ cpc = "get_cpu_usage"
    /\ calls' = Append(calls, "get_cpu_usage")
    /\ \/ /\ \E c \in {"absent", "row"} : cpu' = c
          /\ conn' = conn /\ Advance("display_cpu", out)
       \/ /\ cpu' = cpu
          /\ Raise("Error", "get_cpu_usage", out)
    /\ UNCHANGED <<driver, now, busy, queries, blocking>>

\* Variant: the block is built but not written before the next query runs.
DisplayCpuBuffered ==
    /\ pc = "cycle" /\ cpc = "display_cpu"
    /\ IF CpuRaises(cpu)
       THEN Raise("AttributeError", "display_cpu", out)
       ELSE conn' = conn /\ Advance("get_active_queries", out)
    /\ UNCHANGED <<driver, now, busy, locals, calls>>

\* display_cpu(cpu)
DisplayCpu ==
    /\ pc = "cycle" /\ cpc = "display_cpu"
    /\ IF CpuRaises(cpu)
       THEN Raise("AttributeError", "display_cpu", out \o CpuLines(cpu))
       ELSE conn' = conn /\ Advance("get_active_queries", out \o CpuLines(cpu))
    /\ UNCHANGED <<driver, now, busy, locals, calls>>

\* queries = get_active_queries(cursor)
GetActiveQueries ==
    /\ pc = "cycle" /\ cpc = "get_active_queries"
    /\ calls' = Append(calls, "get_active_queries")
    /\ \/ /\ \E rows \in RowSets : queries' = rows
          /\ conn' = conn /\ Advance("display_queries", out)
       \/ /\ queries' = queries
          /\ Raise("Error", "get_active_queries", out)
    /\ UNCHANGED <<driver, now, busy, cpu, blocking>>

\* display_queries(queries)
DisplayQueries ==
    /\ pc = "cycle" /\ cpc = "display_queries"
    /\ IF RowsRaise(queries)
       THEN Raise("TypeError", "display_queries", out \o QueryLines(queries))
       ELSE conn' = conn /\ Advance("get_blocking", out \o QueryLines(queries))
    /\ UNCHANGED <<driver, now, busy, locals, calls>>

\* blocking = get_blocking(cursor)
GetBlocking ==
    /\ pc = "cycle" /\ cpc = "get_blocking"
    /\ calls' = Append(calls, "get_blocking")
    /\ \/ /\ \E rows \in RowSets : blocking' = rows
          /\ conn' = conn /\ Advance("display_blocking", out)
       \/ /\ blocking' = blocking
          /\ Raise("Error", "get_blocking", out)
    /\ UNCHANGED <<driver, now, busy, cpu, queries>>

\* display_blocking(blocking)
DisplayBlocking ==
    /\ pc = "cycle" /\ cpc = "display_blocking"
    /\ IF RowsRaise(blocking)
       THEN Raise("TypeError", "display_blocking", out \o BlockingLines(blocking))
       ELSE conn' = conn /\ Advance("close", out \o BlockingLines(blocking))
    /\ UNCHANGED <<driver, now, busy, locals, calls>>

\* conn.close(), the last statement of the try block, then the return.
Close ==
    /\ pc = "cycle" /\ cpc = "close"
    /\ \/ /\ conn' = "none"
          /\ cpc' = "idle" /\ cycleEnd' = "ok" /\ pc' = AfterOnce
          /\ UNCHANGED <<out, failedAt, unclosed, stoppedMsgs, crashed>>
       \/ Raise("Error", "close", out)
    /\ UNCHANGED <<driver, now, busy, locals, calls>>

\* ------------------------------------------------------------- the operator
\* Ctrl+C: KeyboardInterrupt is raised in the main thread wherever it is,
\* between two steps of a cycle included.
Interrupt ==
    /\ pc # "exit" /\ intAt = "none"
    /\ intAt' = pc
    /\ IF pc = "cycle"
       THEN Raise("KeyboardInterrupt", cpc, out)
       ELSE /\ Propagate("KeyboardInterrupt")
            /\ UNCHANGED <<cpc, conn, out, failedAt, cycleEnd, unclosed>>
    /\ UNCHANGED <<params, now, wake, locals, calls, cycles, busy>>

\* ------------------------------------------------------------ specification
Step ==
    \/ MainSingle \/ MainContinuous \/ MainInvalid
    \/ StartContinuous \/ LoopCheck \/ Refresh \/ SleepTick \/ Wake
    \/ Connect \/ Cursor \/ DisplayHeader
    \/ GetCpuUsage \/ DisplayCpu
    \/ GetActiveQueries \/ DisplayQueries
    \/ GetBlocking \/ DisplayBlocking
    \/ Close

Next == Step \/ Interrupt

Spec == Init /\ [][Next]_vars

\* The interpreter always runs the next step of the program; the operator
\* need not ever interrupt.
LiveSpec == Init /\ [][Next]_vars /\ WF_vars(Step)

TypeOK ==
    /\ pc \in {"main", "init", "check", "cycle", "refresh", "sleep", "exit"}
    /\ conn \in {"none", "open"}
    /\ cpu \in {"unset", "absent", "row"}
    /\ queries \in RowSets /\ blocking \in RowSets
    /\ cycles \in 0..MaxCycles
    /\ unclosed \in BOOLEAN /\ crashed \in BOOLEAN /\ busy \in BOOLEAN

\* =================================================================== claims
\* Number of occurrences of line x in the output o.
CountOf(o, x) == Cardinality({i \in DOMAIN o : o[i] = x})

QueryFunctions == <<"get_cpu_usage", "get_active_queries", "get_blocking">>

\* The blocks as the claims describe them, written out line by line.
FullCpuBlock == <<"[CPU]", "SQL Server", "Other", "Idle">>

FullQueryBlock(rows) ==
    IF Len(rows) = 0 THEN <<"[ACTIVE QUERIES]", "No active queries">>
    ELSE <<"[ACTIVE QUERIES]", "QCOLUMNS", "DASHES">> \o [i \in 1..Len(rows) |-> "ROW"]

\* ------------------------------------------------------------------- C1
\* C1 (as claimed): every session a cycle opens is closed by conn.close()
\* before the next cycle opens its own, however the cycle ended; so when a
\* cycle is about to open its session no earlier session is left unclosed.
C1_ClosedBeforeNextCycle ==
    (pc = "cycle" /\ cpc = "connect") => ~unclosed

\* ------------------------------------------------------------------- C2
C2_Handled ==
    /\ (crashed \/ cycleEnd = "aborted") => intAt # "none"
    /\ cycleEnd = "error" =>
          /\ failedAt # "none"
          /\ CountOf(out, "ERROR") = 1
          /\ Len(out) > 0 /\ out[Len(out)] = "ERROR"
          /\ cpc = "idle"
          /\ intAt = "none" => pc = (IF choice = "2" THEN "refresh" ELSE "exit")

C2_Continues ==
    /\ (pc = "refresh" /\ intAt' = "none") =>
          pc' = "sleep" /\ wake' = now + interval /\ cycles' = cycles
    /\ (pc = "sleep" /\ intAt' = "none") =>
          \/ pc' = "sleep" /\ now' = now + 1 /\ now' <= wake
          \/ pc' = "check" /\ now = wake
    /\ (pc = "check" /\ intAt' = "none") =>
          IF now < end_time THEN pc' = "cycle" /\ cycles' = cycles + 1
          ELSE pc' = "exit"

\* C2: a failure raised by any step of a cycle is handled inside the cycle:
\* the cycle prints exactly one [ERROR] line, as its last line, and returns
\* normally (the process does not end abnormally); in continuous mode the
\* driver then prints the refresh notice, sleeps the interval and re-checks
\* the deadline, whatever the outcome of the cycle was.
C2_FailureHandledLoopContinues == [](C2_Handled) /\ [][C2_Continues]_vars

\* A successful cycle that followed a failed one, the loop still running.
C2_Witness ==
    pc = "refresh" /\ cycleEnd = "ok" /\ unclosed /\ cycles >= 2 /\ intAt = "none"

\* ------------------------------------------------------------------- C3
\* C3: a query function is only ever called with the session of that cycle
\* open, and a cycle whose session open raised has called no query function.
C3_NoQueryWithoutSession ==
    /\ (pc = "cycle" /\ cpc \in {QueryFunctions[i] : i \in 1..3}) => conn = "open"
    /\ calls # <<>> => failedAt \notin {"connect", "cursor"}
    /\ failedAt \in {"connect", "cursor"} => calls = <<>> /\ out = <<"ERROR">>

\* A cycle whose connection attempt raised, handled and ended.
C3_Witness ==
    failedAt = "connect" /\ cycleEnd = "error" /\ calls = <<>>

\* ------------------------------------------------------------------- C4
\* C4: when the k-th query raises, the cycle's output is the header, the
\* complete blocks of queries 1..k-1 in order and one [ERROR] line, and the
\* queries called are exactly the first k.
C4_PartialOutputPreserved ==
    /\ failedAt = "get_cpu_usage" =>
          /\ out = Header \o <<"ERROR">>
          /\ calls = SubSeq(QueryFunctions, 1, 1)
    /\ failedAt = "get_active_queries" =>
          /\ out = <<"RULE", "TITLE", "TIME", "RULE">> \o FullCpuBlock \o <<"ERROR">>
          /\ calls = SubSeq(QueryFunctions, 1, 2)
    /\ failedAt = "get_blocking" =>
          /\ out = <<"RULE", "TITLE", "TIME", "RULE">> \o FullCpuBlock
                      \o FullQueryBlock(queries) \o <<"ERROR">>
          /\ calls = QueryFunctions

\* The second query raised: header and CPU block stand, then [ERROR].
C4_Witness ==
    failedAt = "get_active_queries" /\ cycleEnd = "error" /\ Len(out) = 9

\* ------------------------------------------------------------------- C5
\* C5: with no interrupt and cycles that take no time, the j-th cycle starts
\* at start + (j-1)*interval, strictly before the deadline, and the loop
\* ends at the first multiple of the interval that is not before the
\* deadline; interval 5 and duration 12 give exactly 3 cycles, the loop
\* being stopped by the test at start + 15.
C5_CyclesAtMultiplesOfInterval ==
    (choice = "2" /\ ~busy /\ intAt = "none" /\ pc \notin {"main", "init"}) =>
       LET start == end_time - duration IN
       /\ pc = "cycle" =>
             now = start + (cycles - 1) * interval /\ now < end_time
       /\ pc = "exit" =>
             /\ now = start + cycles * interval
             /\ now >= end_time
             /\ cycles > 0 => start + (cycles - 1) * interval < end_time
       /\ (pc = "exit" /\ interval = 5 /\ duration = 12) =>
             cycles = 3 /\ now = start + 15

\* The scenario of the claim, run to its end.
C5_Witness ==
    /\ choice = "2" /\ interval = 5 /\ duration = 12
    /\ pc = "exit" /\ ~busy /\ intAt = "none" /\ cycles = 3

\* ------------------------------------------------------------------- C6
C6_Stopped ==
    intAt = "sleep" =>
       /\ pc = "exit" /\ stoppedMsgs = 1 /\ ~crashed
       /\ conn = "none" /\ cpc = "idle"

C6_NothingAfter ==
    intAt = "sleep" =>
       cycles' = cycles /\ conn' = conn /\ stoppedMsgs' = stoppedMsgs /\ pc' = "exit"

\* C6: an interrupt that arrives during time.sleep ends the loop at once:
\* the confirmation is printed exactly once, the process does not end
\* abnormally, and afterwards no cycle starts and no session is opened.
C6_InterruptDuringSleepStops == [](C6_Stopped) /\ [][C6_NothingAfter]_vars

\* The interrupt at t = 7 of the second sleep (5..10) with interval 5.
C6_Witness ==
    /\ intAt = "sleep" /\ interval = 5 /\ end_time - duration = 0
    /\ now = 7 /\ wake = 10 /\ cycles = 2 /\ stoppedMsgs = 1

\* ------------------------------------------------------------------- C7
\* C7 (as claimed): an interrupt that arrives while a cycle is running does
\* not cancel it; the cycle still runs through conn.close() or its [ERROR]
\* line before the driver stops.
C7_CycleRunsToItsEnd ==
    intAt = "cycle" => cycleEnd \in {"ok", "error"}

\* C7 (amended): in continuous mode an interrupt that arrives while a cycle
\* is running abandons the cycle where it stands: no later step runs (no
\* query is called, no [ERROR] line is printed, conn.close() is not
\* reached, so an open session is left unclosed) and the driver stops at
\* once with one confirmation line.
C7_InterruptAbandonsCycle ==
    (intAt = "cycle" /\ choice = "2") =>
       /\ pc = "exit" /\ stoppedMsgs = 1 /\ ~crashed
       /\ cycleEnd = "aborted" /\ failedAt = "none"
       /\ cpc # "idle"
       /\ CountOf(out, "ERROR") = 0
       /\ cpc \in {"connect", "cursor", "header", "get_cpu_usage"} => calls = <<>>
       /\ cpc \in {"display_cpu", "get_active_queries"} =>
             calls = SubSeq(QueryFunctions, 1, 1)
       /\ cpc \in {"display_queries", "get_blocking"} =>
             calls = SubSeq(QueryFunctions, 1, 2)
       /\ conn = "none"
       /\ cpc # "connect" => unclosed

\* Interrupted between display_cpu and get_active_queries.
C7_Witness ==
    /\ intAt = "cycle" /\ choice = "2" /\ pc = "exit"
    /\ cpc = "get_active_queries" /\ Len(out) = 8 /\ unclosed

\* ------------------------------------------------------------------- C8
\* C8 (as claimed): the driver is Sleeping only if time remained before the
\* deadline when the cycle completed (the sleep began at wake - interval).
C8_SleepsOnlyIfTimeRemains ==
    pc = "sleep" => wake - interval < end_time

C8_Driver ==
    /\ (pc = "cycle" /\ pc' # "cycle" /\ choice = "2" /\ intAt' = "none") =>
          pc' = "refresh"
    /\ (pc = "refresh" /\ intAt' = "none") =>
          pc' = "sleep" /\ wake' = now + interval
    /\ (pc = "sleep" /\ pc' # "sleep" /\ intAt' = "none") =>
          pc' = "check" /\ now = wake
    /\ (pc = "check" /\ intAt' = "none") =>
          (pc' = "cycle" /\ now < end_time) \/ (pc' = "exit" /\ now >= end_time)
    /\ (pc # "exit" /\ pc' = "exit" /\ choice = "2" /\ intAt' = "none") =>
          pc = "check"
    /\ (pc # "cycle" /\ pc' = "cycle") => (conn = "none" /\ cpc = "idle")

\* C8 (amended): after a cycle completes (success or handled error) the
\* driver always prints the refresh notice and sleeps one full interval,
\* whether or not time remains; the deadline is tested only at the top of
\* the loop, where the driver starts a cycle if now < deadline and stops
\* otherwise; a cycle starts only when no cycle is running.
C8_SleepsAfterEveryCycle == [][C8_Driver]_vars

\* Sleeping although the deadline had passed when the cycle completed.
C8_Witness ==
    pc = "sleep" /\ wake - interval >= end_time /\ intAt = "none"

\* ------------------------------------------------------------------- C9
C9_Bounded ==
    /\ (choice = "2" /\ pc # "main") => cycles <= duration
    /\ (choice = "1" /\ pc = "exit" /\ intAt = "none") => (cycles = 1 /\ ~crashed)
    /\ choice = "x" => cycles = 0

\* C9: the process always ends (under LiveSpec: the program keeps taking
\* its steps); continuous mode runs at most `duration` cycles (the interval
\* is at least one second), single-snapshot mode exactly one.
C9_Terminates == <>(pc = "exit") /\ [](C9_Bounded)

\* Continuous mode ended by the deadline after failing and succeeding cycles.
C9_Witness ==
    /\ pc = "exit" /\ choice = "2" /\ intAt = "none"
    /\ cycles >= 3 /\ unclosed /\ busy

\* ------------------------------------------------------------------ C10
\* C10: when get_cpu_usage returns None the cycle goes no further than
\* display_cpu: it ends with the header, the [CPU] label and one [ERROR]
\* line, and get_active_queries and get_blocking are not called.
C10_AbsentCpuEndsCycle ==
    cpu = "absent" =>
       /\ cpc \in {"display_cpu", "idle"}
       /\ calls = SubSeq(QueryFunctions, 1, 1)
       /\ cycleEnd # "ok"
       /\ cycleEnd = "error" =>
             /\ failedAt = "display_cpu"
             /\ out = <<"RULE", "TITLE", "TIME", "RULE", "[CPU]", "ERROR">>

\* The cycle that got no ring-buffer record, ended.
C10_Witness ==
    cpu = "absent" /\ cycleEnd = "error" /\ failedAt = "display_cpu"

====
